---- MODULE Spec2Model ----
(***************************************************************************)
(* Hospital management system: the JSON-backed record store (database.py)  *)
(* and the appointment scheduler built on it (appointment_management.py).  *)
(*                                                                         *)
(* Text values are modelled by what the code reads out of them:            *)
(*   a time string "HH:MM" is the pair <<HH, MM>>;                         *)
(*   a date string is <<Y, M, D, padded>> (padded = written with leading   *)
(*   zeros), so two spellings of one calendar day are different strings;   *)
(*   an ISO timestamp is the reading of the clock `now`, an integer;       *)
(*   a dict is a function from its keys to its values.                     *)
(***************************************************************************)
EXTENDS Integers, Sequences, FiniteSets, TLC

VARIABLES disk, now, uuids, last, inst, registry

vars == <<disk, now, uuids, last, inst, registry>>

(***************************************************************************)
(* Bounds of the model.                                                    *)
(***************************************************************************)
\* operations performed in one run (each one reads the clock once)
MaxClock == 3
\* operations performed in one run over the narrow inputs (DeepNext)
MaxClockDeep == 4
\* records of a stored collection handed to the conflict check alone
MaxRecords == 2
\* appointment objects constructed in one run (uuid4 values drawn)
MaxAppointments == 3

\* the 30 minutes buffer of check_appointment_conflict
ConflictBufferMinutes == 30

(***************************************************************************)
(* Values.                                                                 *)
(***************************************************************************)
NoId == "None"
EmptyDict == [k \in {} |-> 0]
UuidPool == <<"a1", "a2", "a3", "a4", "a5", "a6">>
Patients == {"P1"}
Doctors == {"D1", "D2"}
Statuses == {"scheduled", "completed", "cancelled"}
Dates == {<<2025, 6, 1, TRUE>>, <<2025, 6, 2, TRUE>>}
Times == {<<9, 0>>, <<9, 29>>, <<9, 30>>, <<10, 0>>}
NearTimes == {<<9, 0>>, <<9, 29>>, <<9, 30>>}
Notes == {"n1"}
Today == <<2025, 5, 31>>
AppointmentIds == {UuidPool[i] : i \in 1..MaxAppointments}

\* an optional input: <<>> when the value is absent, <<v>> when it is v
Opt(S) == {<<>>} \cup {<<v>> : v \in S}
Field(k, o) == IF o = <<>> THEN EmptyDict ELSE (k :> o[1])

(***************************************************************************)
(* utils.py: validation of date and time strings.                          *)
(***************************************************************************)
IsLeap(y) == (y % 4 = 0 /\ y % 100 # 0) \/ y % 400 = 0
DaysInMonth(y, m) ==
    IF m = 2 THEN (IF IsLeap(y) THEN 29 ELSE 28)
    ELSE IF m \in {4, 6, 9, 11} THEN 30 ELSE 31

\* datetime.strptime(date_str, '%Y-%m-%d') succeeds
validate_date(d) ==
    /\ d[1] \in 1..9999
    /\ d[2] \in 1..12
    /\ d[3] \in 1..DaysInMonth(d[1], d[2])

\* datetime.strptime(time_str, '%H:%M') succeeds
validate_time(t) == t[1] \in 0..23 /\ t[2] \in 0..59

\* datetime.strptime(date, '%Y-%m-%d').date() < datetime.now().date()
DateBefore(d, e) ==
    \/ d[1] < e[1]
    \/ d[1] = e[1] /\ d[2] < e[2]
    \/ d[1] = e[1] /\ d[2] = e[2] /\ d[3] < e[3]

\* minutes since midnight of a parsed time of day
MinuteOfDay(t) == 60 * t[1] + t[2]
Abs(x) == IF x < 0 THEN -x ELSE x
\* abs((new_datetime - existing_datetime).total_seconds() / 60)
TimeDiff(t, u) == Abs(MinuteOfDay(t) - MinuteOfDay(u))

(***************************************************************************)
(* database.py: the record store.  A file is missing, unparseable or a     *)
(* JSON list; io names how the storage behaves during one operation.       *)
(***************************************************************************)
MissingFile == [kind |-> "missing", data |-> <<>>]
\* content that json.load rejects (also what an interrupted write leaves)
CorruptFile == [kind |-> "corrupt", data |-> <<>>]
\* content that parses as JSON but is not a list
NotListFile == [kind |-> "notlist", data |-> <<>>]
\* a JSON array of objects
ListFile(data) == [kind |-> "list", data |-> data]

\* io: how the storage behaves during one operation
\*   load:   "ok" | "denied" (PermissionError) | "oserror" (another OSError)
\*   save:   "ok" | "denied" (PermissionError on open) | "partial" (OSError
\*           after the file was opened for writing, which truncated it)
\*   backup: "ok" | "failed" (the .backup is not touched) | "truncated" (the
\*           .backup was opened for writing and the copy then failed)
IoWorking == [load |-> "ok", save |-> "ok", backup |-> "ok"]

(* json.dump and json.load.  A field named payload holds a Python value    *)
(* [py |-> type, v |-> content]; every other field of a record is a str,   *)
(* which is written as a JSON string and read back as the same str.        *)
JsonEncode(value) ==
    CASE value.py = "str" -> [js |-> "string", v |-> value.v]
      [] value.py = "int" -> [js |-> "number", v |-> value.v]
      [] value.py = "list" -> [js |-> "array", v |-> value.v]
      [] value.py = "tuple" -> [js |-> "array", v |-> value.v]
      [] value.py = "none" -> [js |-> "null", v |-> value.v]

\* a JSON array read back as a tuple
JsonDecodeArrayAsTuple(value) ==
    CASE value.js = "string" -> [py |-> "str", v |-> value.v]
      [] value.js = "number" -> [py |-> "int", v |-> value.v]
      [] value.js = "array" -> [py |-> "tuple", v |-> value.v]
      [] value.js = "null" -> [py |-> "none", v |-> value.v]
JsonDecode(value) ==
    CASE value.js = "string" -> [py |-> "str", v |-> value.v]
      [] value.js = "number" -> [py |-> "int", v |-> value.v]
      [] value.js = "array" -> [py |-> "list", v |-> value.v]
      [] value.js = "null" -> [py |-> "none", v |-> value.v]

\* json.dump raises on a value it cannot write (an object that is not a
\* JSON type, a str that utf-8 cannot encode)
Serializable(data) ==
    \A i \in 1..Len(data) :
        "payload" \in DOMAIN data[i] => data[i].payload.py # "unencodable"

json_dump(data) ==
    [i \in 1..Len(data) |->
        [k \in DOMAIN data[i] |->
            IF k = "payload" THEN JsonEncode(data[i][k]) ELSE data[i][k]]]

json_load(text) ==
    [i \in 1..Len(text) |->
        [k \in DOMAIN text[i] |->
            IF k = "payload" THEN JsonDecode(text[i][k]) ELSE text[i][k]]]

\* the except clauses of save_data and of load_data; every exception of the
\* model is a subclass of Exception
SaveHandlers == {"PermissionError", "OSError", "Exception"}
LoadHandlersNoGeneric == {"JSONDecodeError", "FileNotFoundError", "PermissionError"}
LoadHandlers ==
    {"JSONDecodeError", "FileNotFoundError", "PermissionError", "Exception"}
Catches(handlers, exc) == exc \in handlers \/ "Exception" \in handlers

\* what the try block of save_data raises
SaveException(data, io) ==
    CASE io.save = "denied" -> "PermissionError"
      [] io.save = "partial" -> "OSError"
      [] ~Serializable(data) -> "UnicodeEncodeError"
      [] OTHER -> "none"

\* a backup that is written once and then kept (never overwritten)
BackupCopyKeepsOld(d, io) ==
    IF d.file.kind = "missing" \/ d.backup.kind # "missing" THEN d.backup
    ELSE CASE io.backup = "ok" -> d.file
           [] io.backup = "truncated" -> CorruptFile
           [] OTHER -> d.backup

\* the .backup after the best-effort copy of save_data
BackupCopy(d, io) ==
    IF d.file.kind = "missing" THEN d.backup
    ELSE CASE io.backup = "ok" -> d.file
           [] io.backup = "truncated" -> CorruptFile
           [] OTHER -> d.backup

\* a save_data whose failure is raised only after the list was written
save_data_FailsAfterWrite(d, data, io) ==
    LET backed == BackupCopy(d, io)
        exc == SaveException(data, io)
    IN  [ok |-> exc = "none",
         raised |-> exc # "none" /\ ~Catches(SaveHandlers, exc),
         disk |-> [file |-> IF Serializable(data)
                            THEN ListFile(json_dump(data)) ELSE CorruptFile,
                   backup |-> backed]]

\* a save_data that keeps the stored records the caller did not hold
save_data_Merges(d, data, io) ==
    LET backed == BackupCopy(d, io)
        exc == SaveException(data, io)
        stored == IF d.file.kind = "list" THEN json_load(d.file.data) ELSE <<>>
        kept == SelectSeq(stored,
                          LAMBDA r : \A i \in 1..Len(data) : data[i].id # r.id)
        file == CASE exc = "none" -> ListFile(json_dump(kept \o data))
                  [] exc = "PermissionError" -> d.file
                  [] OTHER -> CorruptFile
    IN  [ok |-> exc = "none",
         raised |-> exc # "none" /\ ~Catches(SaveHandlers, exc),
         disk |-> [file |-> file, backup |-> backed]]

\* save_data: backup of the existing file (best effort), then overwrite
save_data(d, data, io) ==
    LET backed == BackupCopy(d, io)
        exc == SaveException(data, io)
        file == CASE exc = "none" -> ListFile(json_dump(data))
                  [] exc = "PermissionError" -> d.file
                  [] OTHER -> CorruptFile
    IN  [ok |-> exc = "none",
         raised |-> exc # "none" /\ ~Catches(SaveHandlers, exc),
         disk |-> [file |-> file, backup |-> backed]]

\* what the try block of load_data raises
LoadException(d, io) ==
    CASE d.file.kind = "missing" -> "none"
      [] io.load = "denied" -> "PermissionError"
      [] io.load = "oserror" -> "OSError"
      [] d.file.kind = "corrupt" -> "JSONDecodeError"
      [] OTHER -> "none"

\* a load_data that answers [] for a missing file without creating it
load_data_NoCreate(d, io) ==
    LET exc == LoadException(d, io)
    IN  [data |-> IF d.file.kind = "list" /\ exc = "none"
                  THEN json_load(d.file.data) ELSE <<>>,
         raised |-> FALSE, disk |-> d]

\* load_data: a missing file is created empty; what cannot be read is []
load_data(d, io) ==
    LET exc == LoadException(d, io)
    IN  IF d.file.kind = "missing"
        THEN [data |-> <<>>, raised |-> FALSE,
              disk |-> save_data(d, <<>>, io).disk]
        ELSE IF exc # "none"
        THEN [data |-> <<>>, raised |-> ~Catches(LoadHandlers, exc), disk |-> d]
        ELSE IF d.file.kind # "list"
        THEN [data |-> <<>>, raised |-> FALSE, disk |-> d]
        ELSE [data |-> json_load(d.file.data), raised |-> FALSE, disk |-> d]

\* a lookup that falls back to the first record when no id matches
FirstIndexOrFirst(data, record_id) ==
    IF \E i \in 1..Len(data) : data[i].id = record_id
    THEN CHOOSE i \in 1..Len(data) :
             /\ data[i].id = record_id
             /\ \A j \in 1..(i - 1) : data[j].id # record_id
    ELSE IF Len(data) > 0 THEN 1 ELSE 0

\* index of the first record whose id is record_id, 0 when there is none
FirstIndex(data, record_id) ==
    IF \E i \in 1..Len(data) : data[i].id = record_id
    THEN CHOOSE i \in 1..Len(data) :
             /\ data[i].id = record_id
             /\ \A j \in 1..(i - 1) : data[j].id # record_id
    ELSE 0

find_by_id(data, record_id) == FirstIndex(data, record_id)

\* dict.update: the patch's keys overwrite, the other keys stay
DictUpdate(rec, fields) ==
    [k \in DOMAIN rec \cup DOMAIN fields |->
        IF k \in DOMAIN fields THEN fields[k] ELSE rec[k]]

\* an update_record that stamps updated_at before it merges the patch
update_record_PatchStampWins(data, record_id, updated_fields, clock) ==
    LET i == FirstIndex(data, record_id)
    IN  IF i = 0 THEN [ok |-> FALSE, data |-> data]
        ELSE [ok |-> TRUE,
              data |-> [data EXCEPT ![i] =
                          DictUpdate([data[i] EXCEPT !.updated_at = clock],
                                     updated_fields)]]

update_record(data, record_id, updated_fields, clock) ==
    LET i == FirstIndex(data, record_id)
    IN  IF i = 0 THEN [ok |-> FALSE, data |-> data]
        ELSE [ok |-> TRUE,
              data |-> [data EXCEPT ![i] =
                          [DictUpdate(data[i], updated_fields)
                              EXCEPT !.updated_at = clock]]]

\* a delete_record that removes every record with the id
delete_record_RemovesAll(data, record_id) ==
    LET i == FirstIndex(data, record_id)
    IN  IF i = 0 THEN [ok |-> FALSE, data |-> data]
        ELSE [ok |-> TRUE,
              data |-> SelectSeq(data, LAMBDA r : r.id # record_id)]

delete_record(data, record_id) ==
    LET i == FirstIndex(data, record_id)
    IN  IF i = 0 THEN [ok |-> FALSE, data |-> data]
        ELSE [ok |-> TRUE,
              data |-> [j \in 1..(Len(data) - 1) |->
                          IF j < i THEN data[j] ELSE data[j + 1]]]

(***************************************************************************)
(* get_next_id.  An id and a prefix are strings, modelled as sequences of   *)
(* characters, so that startswith, slicing, int() and the 03d format are   *)
(* computed on the characters.                                             *)
DigitChars == <<"0", "1", "2", "3", "4", "5", "6", "7", "8", "9">>
IsDigit(c) == \E i \in 1..10 : DigitChars[i] = c
DigitValue(c) == (CHOOSE i \in 1..10 : DigitChars[i] = c) - 1

\* record_id.startswith(prefix)
StartsWith(str, prefix) ==
    /\ Len(prefix) <= Len(str)
    /\ SubSeq(str, 1, Len(prefix)) = prefix

\* int(num_part) succeeds: one or more decimal digits
IsInt(str) == Len(str) > 0 /\ \A i \in 1..Len(str) : IsDigit(str[i])

RECURSIVE IntOf(_)
IntOf(str) ==
    IF Len(str) = 0 THEN 0
    ELSE 10 * IntOf(SubSeq(str, 1, Len(str) - 1)) + DigitValue(str[Len(str)])

RECURSIVE DigitsOf(_)
DigitsOf(n) ==
    IF n < 10 THEN <<DigitChars[n + 1]>>
    ELSE Append(DigitsOf(n \div 10), DigitChars[(n % 10) + 1])

RECURSIVE ZeroPad(_, _)
ZeroPad(str, width) ==
    IF Len(str) >= width THEN str ELSE ZeroPad(<<"0">> \o str, width)

\* f"{next_num:03d}" for next_num >= 0
Format03d(n) == ZeroPad(DigitsOf(n), 3)

\* the part of an id that get_next_id hands to int(): the prefix is
\* stripped when the id starts with it, the whole id is taken otherwise
NumPart(record_id, prefix) ==
    IF Len(prefix) > 0 /\ StartsWith(record_id, prefix)
    THEN SubSeq(record_id, Len(prefix) + 1, Len(record_id))
    ELSE record_id

\* the for loop of get_next_id from record i on
RECURSIVE MaxNum(_, _, _, _)
MaxNum(data, i, prefix, max_num) ==
    IF i > Len(data) THEN max_num
    ELSE LET num_part == NumPart(data[i].id, prefix)
         IN  IF IsInt(num_part)
             THEN MaxNum(data, i + 1, prefix,
                         IF IntOf(num_part) > max_num THEN IntOf(num_part)
                         ELSE max_num)
             ELSE MaxNum(data, i + 1, prefix, max_num)

get_next_id(data, prefix) ==
    IF Len(data) = 0 THEN prefix \o <<"0", "0", "1">>
    ELSE prefix \o Format03d(MaxNum(data, 1, prefix, 0) + 1)

(***************************************************************************)
(* models.py: Appointment(...).to_dict()                                   *)
(***************************************************************************)
Appointment(id, patient_id, doctor_id, date, time, status, notes, clock) ==
    [id |-> id, patient_id |-> patient_id, doctor_id |-> doctor_id,
     date |-> date, time |-> time, status |-> status, notes |-> notes,
     created_at |-> clock, updated_at |-> clock]

(***************************************************************************)
(* appointment_management.py: the conflict check.                          *)
(***************************************************************************)
\* time_diff < 30
TooCloseInclusive(time, existing) ==
    TimeDiff(time, existing) <= ConflictBufferMinutes
TooClose(time, existing) == TimeDiff(time, existing) < ConflictBufferMinutes

\* the records the loop looks at: same doctor, same date string, not
\* cancelled, not the excluded id
ConsideredAnyDate(appointment, doctor_id, date, exclude_appointment_id) ==
    /\ appointment.doctor_id = doctor_id
    /\ appointment.status # "cancelled"
    /\ appointment.id # exclude_appointment_id
ConsideredWithSelf(appointment, doctor_id, date, exclude_appointment_id) ==
    /\ appointment.doctor_id = doctor_id
    /\ appointment.date = date
    /\ appointment.status # "cancelled"
ConsideredSameDay(appointment, doctor_id, date, exclude_appointment_id) ==
    /\ appointment.doctor_id = doctor_id
    /\ SubSeq(appointment.date, 1, 3) = SubSeq(date, 1, 3)
    /\ appointment.status # "cancelled"
    /\ appointment.id # exclude_appointment_id
ConsideredAnyStatus(appointment, doctor_id, date, exclude_appointment_id) ==
    /\ appointment.doctor_id = doctor_id
    /\ appointment.date = date
    /\ appointment.id # exclude_appointment_id
Considered(appointment, doctor_id, date, exclude_appointment_id) ==
    /\ appointment.doctor_id = doctor_id
    /\ appointment.date = date
    /\ appointment.status # "cancelled"
    /\ appointment.id # exclude_appointment_id

\* the for loop of check_appointment_conflict from record i on; a time that
\* strptime rejects raises, and the handler answers False
RECURSIVE ConflictScanSkipsBad(_, _, _, _, _, _)
ConflictScanSkipsBad(data, i, doctor_id, date, time, exclude_appointment_id) ==
    IF i > Len(data) THEN TRUE
    ELSE IF /\ Considered(data[i], doctor_id, date, exclude_appointment_id)
            /\ validate_time(data[i].time)
            /\ validate_time(time)
            /\ TooClose(time, data[i].time)
         THEN FALSE
         ELSE ConflictScanSkipsBad(data, i + 1, doctor_id, date, time,
                                   exclude_appointment_id)

RECURSIVE ConflictScan(_, _, _, _, _, _)
ConflictScan(data, i, doctor_id, date, time, exclude_appointment_id) ==
    IF i > Len(data) THEN TRUE
    ELSE IF Considered(data[i], doctor_id, date, exclude_appointment_id)
         THEN IF ~validate_time(data[i].time) \/ ~validate_time(time)
              THEN FALSE
              ELSE IF TooClose(time, data[i].time)
                   THEN FALSE
                   ELSE ConflictScan(data, i + 1, doctor_id, date, time,
                                     exclude_appointment_id)
         ELSE ConflictScan(data, i + 1, doctor_id, date, time,
                           exclude_appointment_id)

\* True when there is no conflict; loads the collection itself
check_appointment_conflict(d, doctor_id, date, time, exclude_appointment_id, io) ==
    LET l == load_data(d, io)
    IN  [ok |-> ConflictScan(l.data, 1, doctor_id, date, time,
                             exclude_appointment_id),
         disk |-> l.disk]

(***************************************************************************)
(* appointment_management.py: schedule, update, cancel.                    *)
(* Each operator is one call: d is the storage before it, and the result   *)
(* carries the return value, the storage after it, and what it did.        *)
(***************************************************************************)
Get(dict, k, default) == IF k \in DOMAIN dict THEN dict[k] ELSE default

\* schedule_appointment, interactive input (no appointment_data given):
\* the answers are accepted when patient and doctor exist, the date is a
\* valid date not in the past and the time is a valid time
InputAccepted(input) ==
    /\ input.patient_id \in Patients
    /\ input.doctor_id \in Doctors
    /\ validate_date(input.date)
    /\ ~DateBefore(input.date, Today)
    /\ validate_time(input.time)

InteractiveAppointmentData(input) ==
    [patient_id |-> input.patient_id, doctor_id |-> input.doctor_id,
     date |-> input.date, time |-> input.time, status |-> "scheduled",
     notes |-> Get(input, "notes", "")]

\* appointments_data.append(appointment.to_dict())
AppendAppointment(data, appointment) == Append(data, appointment)

\* a schedule_appointment that saves the new record even on a conflict
schedule_appointment_SavesOnConflict(d, appointment_data, input, id, clock, io) ==
    LET ad == IF DOMAIN appointment_data = {}
              THEN InteractiveAppointmentData(input) ELSE appointment_data
        c == check_appointment_conflict(d, ad.doctor_id, ad.date, ad.time,
                                        NoId, io)
        appointment == Appointment(id, ad.patient_id, ad.doctor_id, ad.date,
                                   ad.time, Get(ad, "status", "scheduled"),
                                   Get(ad, "notes", ""), clock)
        l == load_data(c.disk, io)
        s == save_data(l.disk, Append(l.data, appointment), io)
    IN  [ret |-> c.ok /\ s.ok, disk |-> s.disk,
         check |-> IF c.ok THEN "clear" ELSE "conflict",
         made |-> TRUE, data |-> ad]

schedule_appointment(d, appointment_data, input, id, clock, io) ==
    LET interactive == DOMAIN appointment_data = {}
        ad == IF interactive THEN InteractiveAppointmentData(input)
              ELSE appointment_data
        c == check_appointment_conflict(d, ad.doctor_id, ad.date, ad.time,
                                        NoId, io)
        appointment == Appointment(id, ad.patient_id, ad.doctor_id, ad.date,
                                   ad.time, Get(ad, "status", "scheduled"),
                                   Get(ad, "notes", ""), clock)
        l == load_data(c.disk, io)
        s == save_data(l.disk, AppendAppointment(l.data, appointment), io)
    IN  IF interactive /\ ~InputAccepted(input)
        THEN [ret |-> FALSE, disk |-> d, check |-> "none", made |-> FALSE,
              data |-> input]
        ELSE IF ~c.ok
        THEN [ret |-> FALSE, disk |-> c.disk, check |-> "conflict",
              made |-> FALSE, data |-> ad]
        ELSE [ret |-> s.ok, disk |-> s.disk, check |-> "clear",
              made |-> TRUE, data |-> ad]

\* update_appointment, interactive input: the patch built from the answers
InteractivePatch(input) ==
    LET status == IF "status" \in DOMAIN input /\ input.status \in Statuses
                  THEN <<input.status>> ELSE <<>>
        date == IF /\ "date" \in DOMAIN input
                   /\ validate_date(input.date)
                   /\ ~DateBefore(input.date, Today)
                THEN <<input.date>> ELSE <<>>
        time == IF "time" \in DOMAIN input /\ validate_time(input.time)
                THEN <<input.time>> ELSE <<>>
        notes == IF "notes" \in DOMAIN input THEN <<input.notes>> ELSE <<>>
    IN  Field("status", status) @@ Field("date", date)
            @@ Field("time", time) @@ Field("notes", notes)

\* 'date' in updated_data or 'time' in updated_data
TouchesSlotAlways(patch) == TRUE
TouchesSlot(patch) == "date" \in DOMAIN patch \/ "time" \in DOMAIN patch

\* an update_appointment that writes the patch before it checks for a conflict
update_appointment_WritesFirst(d, appointment_id, updated_data, input, clock, io) ==
    LET l == load_data(d, io)
        i == find_by_id(l.data, appointment_id)
        appointment_record == l.data[i]
        patch == IF DOMAIN updated_data = {} THEN InteractivePatch(input)
                 ELSE updated_data
        touches == TouchesSlot(patch)
        u == update_record(l.data, appointment_id, patch, clock)
        s == save_data(l.disk, u.data, io)
        c == check_appointment_conflict(
                 s.disk, appointment_record.doctor_id,
                 Get(patch, "date", appointment_record.date),
                 Get(patch, "time", appointment_record.time),
                 appointment_id, io)
    IN  IF i = 0
        THEN [ret |-> FALSE, disk |-> l.disk, check |-> "none",
              data |-> updated_data]
        ELSE IF DOMAIN patch = {}
        THEN [ret |-> TRUE, disk |-> l.disk, check |-> "none", data |-> patch]
        ELSE IF touches /\ ~c.ok
        THEN [ret |-> FALSE, disk |-> c.disk, check |-> "conflict",
              data |-> patch]
        ELSE [ret |-> s.ok, disk |-> s.disk,
              check |-> IF touches THEN "clear" ELSE "none", data |-> patch]

update_appointment(d, appointment_id, updated_data, input, clock, io) ==
    LET l == load_data(d, io)
        i == find_by_id(l.data, appointment_id)
        appointment_record == l.data[i]
        patch == IF DOMAIN updated_data = {} THEN InteractivePatch(input)
                 ELSE updated_data
        touches == TouchesSlot(patch)
        new_date == Get(patch, "date", appointment_record.date)
        new_time == Get(patch, "time", appointment_record.time)
        c == check_appointment_conflict(l.disk, appointment_record.doctor_id,
                                        new_date, new_time, appointment_id, io)
        checked == IF touches THEN "clear" ELSE "none"
        u == update_record(l.data, appointment_id, patch, clock)
        s == save_data((IF touches THEN c.disk ELSE l.disk), u.data, io)
    IN  IF i = 0
        THEN [ret |-> FALSE, disk |-> l.disk, check |-> "none",
              data |-> updated_data]
        ELSE IF touches /\ ~c.ok
        THEN [ret |-> FALSE, disk |-> c.disk, check |-> "conflict",
              data |-> patch]
        ELSE IF DOMAIN patch = {}
        THEN [ret |-> TRUE, disk |-> l.disk, check |-> "none", data |-> patch]
        ELSE IF ~u.ok
        THEN [ret |-> FALSE, disk |-> l.disk, check |-> checked,
              data |-> patch]
        ELSE [ret |-> s.ok, disk |-> s.disk, check |-> checked,
              data |-> patch]

\* appointment_record['status'] == 'cancelled'
NeverAlreadyCancelled(appointment_record) == FALSE
AlreadyCancelled(appointment_record) == appointment_record.status = "cancelled"

\* a cancel_appointment that removes the record instead of marking it
cancel_appointment_Deletes(d, appointment_id, confirm, clock, io) ==
    LET l == load_data(d, io)
        i == find_by_id(l.data, appointment_id)
        u == delete_record(l.data, appointment_id)
        s == save_data(l.disk, u.data, io)
    IN  IF i = 0 THEN [ret |-> FALSE, disk |-> l.disk]
        ELSE IF AlreadyCancelled(l.data[i])
        THEN [ret |-> TRUE, disk |-> l.disk]
        ELSE IF ~confirm THEN [ret |-> FALSE, disk |-> l.disk]
        ELSE [ret |-> s.ok, disk |-> s.disk]

\* a cancel_appointment that also empties the notes of the record
cancel_appointment_ClearsNotes(d, appointment_id, confirm, clock, io) ==
    LET l == load_data(d, io)
        i == find_by_id(l.data, appointment_id)
        u == update_record(l.data, appointment_id,
                           [status |-> "cancelled", notes |-> ""], clock)
        s == save_data(l.disk, u.data, io)
    IN  IF i = 0 THEN [ret |-> FALSE, disk |-> l.disk]
        ELSE IF AlreadyCancelled(l.data[i])
        THEN [ret |-> TRUE, disk |-> l.disk]
        ELSE IF ~confirm THEN [ret |-> FALSE, disk |-> l.disk]
        ELSE [ret |-> s.ok, disk |-> s.disk]

cancel_appointment(d, appointment_id, confirm, clock, io) ==
    LET l == load_data(d, io)
        i == find_by_id(l.data, appointment_id)
        u == update_record(l.data, appointment_id, [status |-> "cancelled"],
                           clock)
        s == save_data(l.disk, u.data, io)
    IN  IF i = 0 THEN [ret |-> FALSE, disk |-> l.disk]
        ELSE IF AlreadyCancelled(l.data[i])
        THEN [ret |-> TRUE, disk |-> l.disk]
        ELSE IF ~confirm THEN [ret |-> FALSE, disk |-> l.disk]
        ELSE IF ~u.ok THEN [ret |-> FALSE, disk |-> l.disk]
        ELSE [ret |-> s.ok, disk |-> s.disk]

(***************************************************************************)
(* patient_management.py, staff_management.py: delete_patient and          *)
(* delete_staff.  file is patients.json (staff.json) with its .backup, d   *)
(* is appointments.json with its .backup.                                  *)
(***************************************************************************)
delete_patient(file, d, patient_id, confirm, io) ==
    LET l == load_data(file, io)
        i == find_by_id(l.data, patient_id)
        u == delete_record(l.data, patient_id)
        s == save_data(l.disk, u.data, io)
    IN  IF i = 0 \/ ~confirm \/ ~u.ok
        THEN [ret |-> FALSE, file |-> l.disk, appointments |-> d]
        ELSE [ret |-> s.ok, file |-> s.disk, appointments |-> d]

\* a delete_staff that also removes the appointments of the deleted doctor
delete_staff_Cascades(file, d, staff_id, confirm, io) ==
    LET l == load_data(file, io)
        i == find_by_id(l.data, staff_id)
        u == delete_record(l.data, staff_id)
        s == save_data(l.disk, u.data, io)
        a == load_data(d, io)
        rest == SelectSeq(a.data, LAMBDA r : r.doctor_id # staff_id)
    IN  IF i = 0 \/ ~confirm \/ ~u.ok
        THEN [ret |-> FALSE, file |-> l.disk, appointments |-> d]
        ELSE [ret |-> s.ok, file |-> s.disk,
              appointments |-> save_data(a.disk, rest, io).disk]

delete_staff(file, d, staff_id, confirm, io) ==
    LET l == load_data(file, io)
        i == find_by_id(l.data, staff_id)
        u == delete_record(l.data, staff_id)
        s == save_data(l.disk, u.data, io)
    IN  IF i = 0 \/ ~confirm \/ ~u.ok
        THEN [ret |-> FALSE, file |-> l.disk, appointments |-> d]
        ELSE [ret |-> s.ok, file |-> s.disk, appointments |-> d]

(***************************************************************************)
(* State: the storage (appointments.json and its .backup), the clock, the  *)
(* number of uuid4 values drawn, and the last call with its arguments,     *)
(* its result and the storage it started from.                             *)
(***************************************************************************)
\* inst: the local variables of the instances of the program that run at
\* the same time on the same files (none when one instance runs alone)
NoInstances == [i \in {} |-> 0]

\* registry: patients.json and staff.json, as written by add_patient and
\* add_staff
PatientRecord(id) == [id |-> id, name |-> "patient"]
StaffRecord(id) == [id |-> id, name |-> "staff", role |-> "Doctor"]
Registry0 ==
    [patients |-> [file |-> ListFile(<<PatientRecord("P1")>>),
                   backup |-> MissingFile],
     staff |-> [file |-> ListFile(<<StaffRecord("D1"), StaffRecord("D2")>>),
                backup |-> MissingFile]]

Call(op, id, data, ret, check, before) ==
    [op |-> op, id |-> id, data |-> data, ret |-> ret, check |-> check,
     before |-> before]

EmptyDisks ==
    {[file |-> f, backup |-> MissingFile] : f \in {MissingFile, ListFile(<<>>)}}

Init ==
    /\ disk \in EmptyDisks
    /\ now = 0
    /\ uuids = 0
    /\ inst = NoInstances
    /\ registry = Registry0
    /\ last = Call("init", NoId, EmptyDict, TRUE, "none", disk)

\* what a load with working storage returns: the persisted collection
Stored(d) == load_data(d, IoWorking).data
Persisted == Stored(disk)
Before == Stored(last.before)

(***************************************************************************)
(* Actions: one call each.                                                 *)
(***************************************************************************)
\* what the user may type at the prompts of schedule_appointment
ScheduleInputs(P, Dr, Dt, T) ==
    { [patient_id |-> p, doctor_id |-> dr, date |-> dt, time |-> t] :
        p \in P, dr \in Dr, dt \in Dt, t \in T }

\* what the user may type at the prompts of update_appointment
UpdateInputs(S, Dt, T, N) ==
    { Field("status", s) @@ Field("date", dt) @@ Field("time", t)
          @@ Field("notes", n) :
        s \in Opt(S), dt \in Opt(Dt), t \in Opt(T), n \in Opt(N) }

Schedule(appointment_data, input, io) ==
    LET r == schedule_appointment(disk, appointment_data, input,
                                  UuidPool[uuids + 1], now + 1, io)
    IN  /\ r.made => uuids < MaxAppointments
        /\ disk' = r.disk
        /\ uuids' = IF r.made THEN uuids + 1 ELSE uuids
        /\ last' = Call("schedule",
                        IF r.made THEN UuidPool[uuids + 1] ELSE NoId,
                        r.data, r.ret, r.check, disk)
        /\ now' = now + 1
        /\ UNCHANGED <<inst, registry>>

Update(appointment_id, updated_data, input, io) ==
    LET r == update_appointment(disk, appointment_id, updated_data, input,
                                now + 1, io)
    IN  /\ disk' = r.disk
        /\ last' = Call("update", appointment_id, r.data, r.ret, r.check, disk)
        /\ now' = now + 1
        /\ UNCHANGED <<uuids, inst, registry>>

Cancel(appointment_id, confirm, io) ==
    LET r == cancel_appointment(disk, appointment_id, confirm, now + 1, io)
    IN  /\ disk' = r.disk
        /\ last' = Call("cancel", appointment_id, EmptyDict, r.ret, "none", disk)
        /\ now' = now + 1
        /\ UNCHANGED <<uuids, inst, registry>>

\* one call of check_appointment_conflict on its own
Check(doctor_id, date, time, exclude_appointment_id, io) ==
    LET r == check_appointment_conflict(disk, doctor_id, date, time,
                                        exclude_appointment_id, io)
    IN  /\ last.op = "init"
        /\ disk' = r.disk
        /\ last' = Call("check", exclude_appointment_id,
                        [doctor_id |-> doctor_id, date |-> date, time |-> time],
                        r.ok, IF r.ok THEN "clear" ELSE "conflict", disk)
        /\ UNCHANGED <<now, uuids, inst, registry>>

(***************************************************************************)
(* Spec: the appointment menu (choices 1, 5 and 6) with working storage,   *)
(* started on an empty collection: any doctor, date and time at the        *)
(* schedule prompts, status and notes at the update prompts.               *)
(***************************************************************************)
Next ==
    /\ now < MaxClock
    /\ \/ \E input \in ScheduleInputs(Patients, Doctors, Dates, Times) :
              Schedule(EmptyDict, input, IoWorking)
       \/ \E id \in AppointmentIds,
             input \in UpdateInputs(Statuses, {}, {}, Notes) :
              Update(id, EmptyDict, input, IoWorking)
       \/ \E id \in AppointmentIds, confirm \in BOOLEAN :
              Cancel(id, confirm, IoWorking)

Spec == Init /\ [][Next]_vars

(***************************************************************************)
(* RescheduleSpec: the same menu for one doctor and one day, with every    *)
(* field (status, date, time, notes) at the update prompts.                *)
(***************************************************************************)
OneDoctor == {"D1"}
OneDate == {<<2025, 6, 1, TRUE>>}

RescheduleNext ==
    /\ now < MaxClock
    /\ \/ \E input \in ScheduleInputs(Patients, OneDoctor, OneDate, NearTimes) :
              Schedule(EmptyDict, input, IoWorking)
       \/ \E id \in AppointmentIds,
             input \in UpdateInputs(Statuses, OneDate, NearTimes, Notes) :
              Update(id, EmptyDict, input, IoWorking)
       \/ \E id \in AppointmentIds, confirm \in BOOLEAN :
              Cancel(id, confirm, IoWorking)

RescheduleSpec == Init /\ [][RescheduleNext]_vars

(***************************************************************************)
(* DeepSpec: the same menu in longer runs over fewer inputs (one doctor,   *)
(* one day, two times 29 minutes apart, status and time at the update      *)
(* prompts).                                                               *)
(***************************************************************************)
DeepTimes == {<<9, 0>>, <<9, 29>>}

DeepNext ==
    /\ now < MaxClockDeep
    /\ \/ \E input \in ScheduleInputs(Patients, OneDoctor, OneDate, DeepTimes) :
              Schedule(EmptyDict, input, IoWorking)
       \/ \E id \in AppointmentIds,
             input \in UpdateInputs(Statuses, {}, DeepTimes, {}) :
              Update(id, EmptyDict, input, IoWorking)
       \/ \E id \in AppointmentIds, confirm \in BOOLEAN :
              Cancel(id, confirm, IoWorking)

DeepSpec == Init /\ [][DeepNext]_vars

(***************************************************************************)
(* ConflictSpec: check_appointment_conflict applied once to a stored       *)
(* collection of well-formed records.                                      *)
(***************************************************************************)
\* the well-formed collections of n records; record i has the i-th id
RECURSIVE Collections(_)
Collections(n) ==
    IF n = 0 THEN {<<>>}
    ELSE { Append(c, Appointment(UuidPool[n], "P1", dr, dt, t, s, "", 0)) :
             c \in Collections(n - 1), dr \in Doctors, dt \in Dates,
             t \in NearTimes, s \in Statuses }

ConflictInit ==
    /\ \E n \in 0..MaxRecords :
          disk \in {[file |-> ListFile(c), backup |-> MissingFile] :
                       c \in Collections(n)}
    /\ now = 0
    /\ uuids = 0
    /\ inst = NoInstances
    /\ registry = Registry0
    /\ last = Call("init", NoId, EmptyDict, TRUE, "none", disk)

ConflictNext ==
    \E dr \in OneDoctor, dt \in OneDate, t \in NearTimes,
       ex \in {NoId} \cup {UuidPool[i] : i \in 1..MaxRecords} :
        Check(dr, dt, t, ex, IoWorking)

ConflictSpec == ConflictInit /\ [][ConflictNext]_vars

(***************************************************************************)
(* ApiSpec: schedule_appointment and update_appointment called with a      *)
(* dictionary (appointment_data, updated_data) as well as from the menu,   *)
(* for one doctor: the date may be yesterday, the time may be "25:00", the *)
(* dictionary may carry a status, and a patch may carry any field.         *)
(***************************************************************************)
PastDate == <<2025, 5, 30, TRUE>>
BadTime == <<25, 0>>
ApiDates == {PastDate, <<2025, 6, 1, TRUE>>}
ApiTimes == {<<9, 0>>, BadTime}

\* the dictionaries a caller passes to schedule_appointment
ApiAppointmentData ==
    { [patient_id |-> p, doctor_id |-> dr, date |-> dt, time |-> t]
          @@ Field("status", s) :
        p \in Patients, dr \in OneDoctor, dt \in ApiDates, t \in ApiTimes,
        s \in Opt({"completed"}) }

\* the dictionaries a caller passes to update_appointment
ApiPatches == {[room |-> "r1"], [id |-> "a2"], [status |-> "completed"]}

ApiNext ==
    /\ now < MaxClock
    /\ \/ \E appointment_data \in ApiAppointmentData :
              Schedule(appointment_data, EmptyDict, IoWorking)
       \/ \E input \in ScheduleInputs(Patients, OneDoctor, ApiDates, ApiTimes) :
              Schedule(EmptyDict, input, IoWorking)
       \/ \E id \in AppointmentIds, updated_data \in ApiPatches :
              Update(id, updated_data, EmptyDict, IoWorking)
       \/ \E id \in AppointmentIds : Cancel(id, TRUE, IoWorking)

ApiSpec == Init /\ [][ApiNext]_vars

(***************************************************************************)
(* StoreSpec: load_data and save_data called on one file, with and without *)
(* storage faults, on lists of records of the value types the entity       *)
(* models store (str, int, list, None) and on one that json.dump rejects.  *)
(***************************************************************************)
\* store operations performed in one run
MaxStoreOps == 3

StoreRecord(id, py) == [id |-> id, payload |-> [py |-> py, v |-> <<"x">>]]
StoreLists ==
    { <<>>,
      <<StoreRecord("r1", "str")>>,
      <<StoreRecord("r1", "none")>>,
      <<StoreRecord("r1", "list"), StoreRecord("r2", "int")>>,
      <<StoreRecord("r2", "int"), StoreRecord("r1", "list")>>,
      <<StoreRecord("r1", "unencodable")>> }

\* working storage and the single faults
IoCases ==
    { IoWorking,
      [IoWorking EXCEPT !.load = "denied"],
      [IoWorking EXCEPT !.load = "oserror"],
      [IoWorking EXCEPT !.save = "denied"],
      [IoWorking EXCEPT !.save = "partial"],
      [IoWorking EXCEPT !.backup = "failed"],
      [IoWorking EXCEPT !.backup = "truncated"] }

\* a call of load_data or save_data: its argument (data), what it returned
\* (out, ret), whether an exception left it (raised), and the storage
StoreCall(op, data, out, ret, raised, io, before) ==
    [op |-> op, id |-> NoId, data |-> data, ret |-> ret, check |-> "none",
     before |-> before, out |-> out, raised |-> raised, io |-> io]

StoreInit ==
    /\ disk \in {[file |-> f, backup |-> MissingFile] :
                    f \in {MissingFile, CorruptFile, NotListFile, ListFile(<<>>)}}
    /\ now = 0
    /\ uuids = 0
    /\ inst = NoInstances
    /\ registry = Registry0
    /\ last = StoreCall("init", <<>>, <<>>, TRUE, FALSE, IoWorking, disk)

Load(io) ==
    LET r == load_data(disk, io)
    IN  /\ disk' = r.disk
        /\ last' = StoreCall("load", <<>>, r.data, TRUE, r.raised, io, disk)
        /\ now' = now + 1
        /\ UNCHANGED <<uuids, inst, registry>>

Save(data, io) ==
    LET r == save_data(disk, data, io)
    IN  /\ disk' = r.disk
        /\ last' = StoreCall("save", data, <<>>, r.ok, r.raised, io, disk)
        /\ now' = now + 1
        /\ UNCHANGED <<uuids, inst, registry>>

StoreNext ==
    /\ now < MaxStoreOps
    /\ \/ \E io \in IoCases : Load(io)
       \/ \E data \in StoreLists, io \in IoCases : Save(data, io)

StoreSpec == StoreInit /\ [][StoreNext]_vars

(***************************************************************************)
(* IdSpec: get_next_id applied once to a collection of records whose ids   *)
(* are any strings over a small alphabet, with and without a prefix.       *)
(***************************************************************************)
\* records of a collection handed to get_next_id
MaxIdRecords == 2
\* characters of an id
MaxIdLen == 3

IdAlphabet == {"P", "S", "0", "9"}
IdPrefixes == {<<>>, <<"P">>}

RECURSIVE Strings(_)
Strings(n) ==
    IF n = 0 THEN {<<>>}
    ELSE Strings(n - 1)
             \cup {Append(str, c) : str \in Strings(n - 1), c \in IdAlphabet}

RECURSIVE IdCollections(_)
IdCollections(n) ==
    IF n = 0 THEN {<<>>}
    ELSE {Append(c, [id |-> str]) :
             c \in IdCollections(n - 1), str \in Strings(MaxIdLen)}

IdInit ==
    /\ \E n \in 0..MaxIdRecords :
          disk \in {[file |-> ListFile(c), backup |-> MissingFile] :
                       c \in IdCollections(n)}
    /\ now = 0
    /\ uuids = 0
    /\ inst = NoInstances
    /\ registry = Registry0
    /\ last = StoreCall("init", [prefix |-> <<>>], <<>>, TRUE, FALSE,
                        IoWorking, disk)

\* one call of get_next_id on the loaded collection
NextId(prefix) ==
    LET l == load_data(disk, IoWorking)
    IN  /\ last.op = "init"
        /\ disk' = l.disk
        /\ last' = StoreCall("get_next_id", [prefix |-> prefix],
                             get_next_id(l.data, prefix), TRUE, FALSE,
                             IoWorking, disk)
        /\ UNCHANGED <<now, uuids, inst, registry>>

IdNext == \E prefix \in IdPrefixes : NextId(prefix)

IdSpec == IdInit /\ [][IdNext]_vars

(***************************************************************************)
(* RaceSpec: two instances of the program run schedule_appointment on the  *)
(* same appointments.json.  A call is three steps, each one access to the  *)
(* file: the load of the conflict check, the load before the append, and   *)
(* the save; the steps of the two instances interleave in any order.       *)
(***************************************************************************)
Instances == {"A", "B"}

InstanceStart ==
    [pc |-> "start", ad |-> EmptyDict, data |-> <<>>, id |-> NoId,
     ret |-> FALSE]

\* a step of an instance, and the storage before it
RaceCall(op, instance, before) ==
    [op |-> op, id |-> NoId, data |-> EmptyDict, ret |-> TRUE,
     check |-> "none", before |-> before, instance |-> instance]

RaceInit ==
    /\ disk \in EmptyDisks
    /\ now = 0
    /\ uuids = 0
    /\ inst = [i \in Instances |-> InstanceStart]
    /\ registry = Registry0
    /\ last = RaceCall("init", "A", disk)

\* lines 91-96: the conflict check on the collection as stored now
RaceCheck(i, input) ==
    LET ad == InteractiveAppointmentData(input)
        c == check_appointment_conflict(disk, ad.doctor_id, ad.date, ad.time,
                                        NoId, IoWorking)
    IN  /\ inst[i].pc = "start"
        /\ InputAccepted(input)
        /\ disk' = c.disk
        /\ inst' = [inst EXCEPT ![i] =
                       [@ EXCEPT !.pc = IF c.ok THEN "checked" ELSE "done",
                                 !.ad = ad]]
        /\ last' = RaceCall("race_check", i, disk)
        /\ UNCHANGED <<now, uuids, registry>>

\* lines 98-112: the new Appointment, the load and the append in memory
RaceLoad(i) ==
    LET ad == inst[i].ad
        id == UuidPool[uuids + 1]
        appointment == Appointment(id, ad.patient_id, ad.doctor_id, ad.date,
                                   ad.time, Get(ad, "status", "scheduled"),
                                   Get(ad, "notes", ""), now + 1)
        l == load_data(disk, IoWorking)
    IN  /\ inst[i].pc = "checked"
        /\ uuids < MaxAppointments
        /\ disk' = l.disk
        /\ inst' = [inst EXCEPT ![i] =
                       [@ EXCEPT !.pc = "loaded", !.id = id,
                                 !.data = AppendAppointment(l.data, appointment)]]
        /\ uuids' = uuids + 1
        /\ now' = now + 1
        /\ last' = RaceCall("race_load", i, disk)
        /\ UNCHANGED registry

\* lines 115-121: the save of the whole in-memory collection
RaceSave(i) ==
    LET s == save_data(disk, inst[i].data, IoWorking)
    IN  /\ inst[i].pc = "loaded"
        /\ disk' = s.disk
        /\ inst' = [inst EXCEPT ![i] = [@ EXCEPT !.pc = "done", !.ret = s.ok]]
        /\ last' = RaceCall("race_save", i, disk)
        /\ UNCHANGED <<now, uuids, registry>>

RaceNext ==
    \E i \in Instances :
        \/ \E input \in ScheduleInputs(Patients, OneDoctor, OneDate, NearTimes) :
               RaceCheck(i, input)
        \/ RaceLoad(i)
        \/ RaceSave(i)

RaceSpec == RaceInit /\ [][RaceNext]_vars

(***************************************************************************)
(* RegistrySpec: patients and staff are deleted (menu choices of the       *)
(* patient and staff menus) between calls of schedule_appointment with a   *)
(* dictionary, which looks up neither the patient nor the doctor.          *)
(***************************************************************************)
DeletePatient(patient_id, confirm, io) ==
    LET r == delete_patient(registry.patients, disk, patient_id, confirm, io)
    IN  /\ registry' = [registry EXCEPT !.patients = r.file]
        /\ disk' = r.appointments
        /\ last' = Call("delete_patient", patient_id, EmptyDict, r.ret, "none",
                        disk)
        /\ now' = now + 1
        /\ UNCHANGED <<uuids, inst>>

DeleteStaff(staff_id, confirm, io) ==
    LET r == delete_staff(registry.staff, disk, staff_id, confirm, io)
    IN  /\ registry' = [registry EXCEPT !.staff = r.file]
        /\ disk' = r.appointments
        /\ last' = Call("delete_staff", staff_id, EmptyDict, r.ret, "none", disk)
        /\ now' = now + 1
        /\ UNCHANGED <<uuids, inst>>

RegistryAppointmentData ==
    { [patient_id |-> p, doctor_id |-> dr, date |-> dt, time |-> t] :
        p \in Patients, dr \in Doctors, dt \in OneDate, t \in DeepTimes }

RegistryNext ==
    /\ now < MaxClockDeep
    /\ \/ \E appointment_data \in RegistryAppointmentData :
              Schedule(appointment_data, EmptyDict, IoWorking)
       \/ \E id \in Patients \cup {"P9"}, confirm \in BOOLEAN :
              DeletePatient(id, confirm, IoWorking)
       \/ \E id \in Doctors, confirm \in BOOLEAN :
              DeleteStaff(id, confirm, IoWorking)

RegistrySpec == Init /\ [][RegistryNext]_vars

(***************************************************************************)
(* FaultSpec: the appointment menu for one doctor and one day while writes *)
(* to the storage may fail: permission denied when the file is opened, or  *)
(* an OS error after it was opened for writing.                            *)
(***************************************************************************)
SaveFaults ==
    { IoWorking,
      [IoWorking EXCEPT !.save = "denied"],
      [IoWorking EXCEPT !.save = "partial"] }

FaultNext ==
    /\ now < MaxClock
    /\ \/ \E input \in ScheduleInputs(Patients, OneDoctor, OneDate, DeepTimes),
             io \in SaveFaults :
              Schedule(EmptyDict, input, io)
       \/ \E id \in AppointmentIds,
             input \in UpdateInputs({}, {}, {}, Notes), io \in SaveFaults :
              Update(id, EmptyDict, input, io)
       \/ \E id \in AppointmentIds, io \in SaveFaults :
              Cancel(id, TRUE, io)

FaultSpec == Init /\ [][FaultNext]_vars

(***************************************************************************)
(* RecordSpec: find_by_id, update_record and delete_record applied once to *)
(* a loaded collection in which ids may repeat.                            *)
(***************************************************************************)
\* records of a collection handed to find_by_id, update_record, delete_record
MaxListLen == 3

RecordIds == {"r1", "r2"}
RecordNames == {"x", "y"}
RecordPatches ==
    {[name |-> "z"], [updated_at |-> 9], [room |-> "q", name |-> "x"]}

RECURSIVE RecordCollections(_)
RecordCollections(n) ==
    IF n = 0 THEN {<<>>}
    ELSE {Append(c, [id |-> id, name |-> name, updated_at |-> 0]) :
             c \in RecordCollections(n - 1), id \in RecordIds,
             name \in RecordNames}

RecordInit ==
    /\ \E n \in 0..MaxListLen :
          disk \in {[file |-> ListFile(c), backup |-> MissingFile] :
                       c \in RecordCollections(n)}
    /\ now = 0
    /\ uuids = 0
    /\ inst = NoInstances
    /\ registry = Registry0
    /\ last = StoreCall("init", EmptyDict, <<>>, TRUE, FALSE, IoWorking, disk)

\* find_by_id on the loaded collection; out is the position of the record
\* returned (none when it returns None)
FindById(record_id) ==
    LET l == load_data(disk, IoWorking)
        i == find_by_id(l.data, record_id)
    IN  /\ last.op = "init"
        /\ disk' = l.disk
        /\ last' = StoreCall("find_by_id", [id |-> record_id],
                             IF i = 0 THEN <<>> ELSE <<i>>, i # 0, FALSE,
                             IoWorking, disk)
        /\ UNCHANGED <<now, uuids, inst, registry>>

\* update_record on the loaded collection; out is the collection after it
UpdateRecord(record_id, updated_fields) ==
    LET l == load_data(disk, IoWorking)
        u == update_record(l.data, record_id, updated_fields, now + 1)
    IN  /\ last.op = "init"
        /\ disk' = l.disk
        /\ last' = StoreCall("update_record",
                             [id |-> record_id, fields |-> updated_fields],
                             u.data, u.ok, FALSE, IoWorking, disk)
        /\ now' = now + 1
        /\ UNCHANGED <<uuids, inst, registry>>

\* delete_record on the loaded collection; out is the collection after it
DeleteRecord(record_id) ==
    LET l == load_data(disk, IoWorking)
        u == delete_record(l.data, record_id)
    IN  /\ last.op = "init"
        /\ disk' = l.disk
        /\ last' = StoreCall("delete_record", [id |-> record_id], u.data, u.ok,
                             FALSE, IoWorking, disk)
        /\ UNCHANGED <<now, uuids, inst, registry>>

RecordNext ==
    \E record_id \in RecordIds \cup {"r3"} :
        \/ FindById(record_id)
        \/ \E updated_fields \in RecordPatches :
               UpdateRecord(record_id, updated_fields)
        \/ DeleteRecord(record_id)

RecordSpec == RecordInit /\ [][RecordNext]_vars

(***************************************************************************)
(* MoveSpec: the menu with updates that change the date and/or the time of *)
(* an appointment, for two doctors on two days.                            *)
(***************************************************************************)
MoveTimes == {<<9, 0>>, <<9, 29>>, <<9, 59>>}

MoveNext ==
    /\ now < MaxClock
    /\ \/ \E input \in ScheduleInputs(Patients, Doctors, Dates, MoveTimes) :
              Schedule(EmptyDict, input, IoWorking)
       \/ \E id \in AppointmentIds,
             input \in UpdateInputs({}, Dates, MoveTimes, {}) :
              Update(id, EmptyDict, input, IoWorking)

MoveSpec == Init /\ [][MoveNext]_vars

(***************************************************************************)
(* SpellingSpec: the schedule prompt answered with one day of one doctor   *)
(* written with and without zero padding ("2025-06-01", "2025-6-1"); both  *)
(* spellings pass validate_date.                                           *)
(***************************************************************************)
SpelledDates == {<<2025, 6, 1, TRUE>>, <<2025, 6, 1, FALSE>>}

SpellingNext ==
    /\ now < MaxClock
    /\ \/ \E input \in ScheduleInputs(Patients, OneDoctor, SpelledDates, NearTimes) :
              Schedule(EmptyDict, input, IoWorking)
       \/ \E id \in AppointmentIds : Cancel(id, TRUE, IoWorking)

SpellingSpec == Init /\ [][SpellingNext]_vars

(***************************************************************************)
(* Vocabulary of the claims.                                               *)
(***************************************************************************)
\* some record of data blocks the slot (doctor_id, date, time): same doctor,
\* same date, not cancelled, not the excluded id, less than 30 minutes away
Blocked(data, doctor_id, date, time, exclude) ==
    \E i \in 1..Len(data) :
        /\ data[i].doctor_id = doctor_id
        /\ data[i].date = date
        /\ data[i].status # "cancelled"
        /\ data[i].id # exclude
        /\ TimeDiff(data[i].time, time) < 30

\* two live records of data, same doctor and date, less than 30 minutes apart
DoubleBooked(data) ==
    \E i, j \in 1..Len(data) :
        /\ i < j
        /\ data[i].doctor_id = data[j].doctor_id
        /\ data[i].date = data[j].date
        /\ data[i].status # "cancelled"
        /\ data[j].status # "cancelled"
        /\ TimeDiff(data[i].time, data[j].time) < 30

Ids(data) == {data[i].id : i \in 1..Len(data)}
WithId(data, id) == {i \in 1..Len(data) : data[i].id = id}
SameSlot(a, doctor_id, date, time) ==
    a.doctor_id = doctor_id /\ a.date = date /\ a.time = time

(***************************************************************************)
(* C1: after any sequence of schedule, update and cancel calls made one at *)
(* a time from an empty collection, no two persisted appointments that are *)
(* not cancelled and have the same doctor and date are less than 30        *)
(* minutes apart.                                                          *)
(***************************************************************************)
C1_NoDoubleBooking ==
    \A i, j \in 1..Len(Persisted) :
        ( /\ i < j
          /\ Persisted[i].doctor_id = Persisted[j].doctor_id
          /\ Persisted[i].date = Persisted[j].date
          /\ Persisted[i].status # "cancelled"
          /\ Persisted[j].status # "cancelled" )
        => TimeDiff(Persisted[i].time, Persisted[j].time) >= 30

(***************************************************************************)
(* C2: on a collection of well-formed records the conflict check answers   *)
(* False exactly when a stored record of the same doctor and date, not     *)
(* cancelled and not the excluded id, is strictly less than 30 minutes     *)
(* from the candidate time; otherwise it answers True.                     *)
(***************************************************************************)
C2_ConflictCheckExact ==
    last.op = "check" =>
        last.ret = ~Blocked(Before, last.data.doctor_id, last.data.date,
                            last.data.time, last.id)

\* the check answered True with a cancelled record on the very slot and a
\* live record of the same doctor and date exactly 30 minutes away
C2_Witness ==
    /\ last.op = "check"
    /\ last.ret
    /\ \E i, j \in 1..Len(Before) :
          /\ SameSlot(Before[i], last.data.doctor_id, last.data.date,
                      last.data.time)
          /\ Before[i].status = "cancelled"
          /\ Before[j].doctor_id = last.data.doctor_id
          /\ Before[j].date = last.data.date
          /\ Before[j].status # "cancelled"
          /\ Before[j].id # last.id
          /\ TimeDiff(Before[j].time, last.data.time) = 30

(***************************************************************************)
(* C3: with working storage, schedule for (D, Dt, T) fails when a live     *)
(* appointment of D on Dt is 0 to 29 minutes from T and succeeds when all  *)
(* of them are 30 minutes or more away; other dates and other doctors      *)
(* never make it fail.                                                     *)
(***************************************************************************)
C3_ScheduleDecidedBySlot ==
    last.op = "schedule" =>
        last.ret = ~Blocked(Before, last.data.doctor_id, last.data.date,
                            last.data.time, NoId)

\* schedule succeeded between two live appointments of the same doctor and
\* date, each exactly 30 minutes away
C3_Witness ==
    /\ last.op = "schedule"
    /\ last.ret
    /\ \E i, j \in 1..Len(Before) :
          /\ i # j
          /\ \A k \in {i, j} :
                /\ Before[k].doctor_id = last.data.doctor_id
                /\ Before[k].date = last.data.date
                /\ Before[k].status # "cancelled"
                /\ TimeDiff(Before[k].time, last.data.time) = 30

(***************************************************************************)
(* C4: a schedule refused by the conflict check returns failure and leaves *)
(* the persisted collection exactly as it was.                             *)
(***************************************************************************)
C4_RefusedScheduleWritesNothing ==
    (last.op = "schedule" /\ last.check = "conflict") =>
        /\ ~last.ret
        /\ Persisted = Before

C4_Witness ==
    /\ last.op = "schedule"
    /\ last.check = "conflict"
    /\ Len(Before) > 0

(***************************************************************************)
(* C5: once an appointment at (D, Dt, T) is cancelled and no other live    *)
(* appointment of D on Dt is less than 30 minutes from T, a schedule for   *)
(* (D, Dt, T) succeeds.                                                    *)
(***************************************************************************)
C5_CancelledSlotIsFree ==
    ( /\ last.op = "schedule"
      /\ \E i \in 1..Len(Before) :
            /\ SameSlot(Before[i], last.data.doctor_id, last.data.date,
                        last.data.time)
            /\ Before[i].status = "cancelled"
      /\ ~Blocked(Before, last.data.doctor_id, last.data.date,
                  last.data.time, NoId) )
    => last.ret

\* the slot of a record cancelled after its creation was scheduled again
C5_Witness ==
    /\ last.op = "schedule"
    /\ last.ret
    /\ \E i \in 1..Len(Before) :
          /\ SameSlot(Before[i], last.data.doctor_id, last.data.date,
                      last.data.time)
          /\ Before[i].status = "cancelled"
          /\ Before[i].updated_at > Before[i].created_at

(***************************************************************************)
(* C6: cancel on an appointment already cancelled returns success and      *)
(* leaves the persisted collection unchanged, updated_at included; a       *)
(* successful cancel leaves the record cancelled, so cancelling twice      *)
(* gives the state of cancelling once.                                     *)
(***************************************************************************)
C6_CancelIdempotent ==
    last.op = "cancel" =>
        /\ \A i \in WithId(Before, last.id) :
              (i = FirstIndex(Before, last.id) /\ Before[i].status = "cancelled")
                  => (last.ret /\ Persisted = Before)
        /\ last.ret =>
              \E i \in WithId(Persisted, last.id) :
                  Persisted[i].status = "cancelled"

\* a cancel of a record that an earlier call had already cancelled
C6_Witness ==
    /\ last.op = "cancel"
    /\ last.ret
    /\ \E i \in WithId(Before, last.id) :
          /\ Before[i].status = "cancelled"
          /\ Before[i].updated_at < now

(***************************************************************************)
(* C7: an update whose patch holds only notes never runs the conflict      *)
(* check and returns success for every existing appointment.               *)
(***************************************************************************)
C7_NotesOnlyUpdate ==
    ( /\ last.op = "update"
      /\ DOMAIN last.data = {"notes"}
      /\ last.id \in Ids(Before) )
    => (last.ret /\ last.check = "none")

\* notes were set on a cancelled appointment
C7_Witness ==
    /\ last.op = "update"
    /\ DOMAIN last.data = {"notes"}
    /\ last.ret
    /\ \E i \in WithId(Persisted, last.id) :
          /\ Persisted[i].status = "cancelled"
          /\ Persisted[i].notes = last.data.notes
          /\ Persisted[i].updated_at = now

(***************************************************************************)
(* C8: an update with date and/or time that the conflict check rejects     *)
(* returns failure and changes no field of the persisted record.           *)
(***************************************************************************)
C8_RejectedUpdateWritesNothing ==
    (last.op = "update" /\ last.check = "conflict") =>
        /\ ~last.ret
        /\ Persisted = Before

\* the rejected patch also carried a new status and notes
C8_Witness ==
    /\ last.op = "update"
    /\ last.check = "conflict"
    /\ {"status", "notes"} \subseteq DOMAIN last.data
    /\ \E i \in WithId(Before, last.id) :
          /\ Before[i].status # last.data.status
          /\ Before[i].notes # last.data.notes

(***************************************************************************)
(* C9: cancelled is terminal: no call changes the status of an appointment *)
(* that is persisted as cancelled.                                         *)
(***************************************************************************)
C9_CancelledIsTerminal ==
    \A i \in 1..Len(Before) :
        Before[i].status = "cancelled" =>
            \A j \in WithId(Persisted, Before[i].id) :
                Persisted[j].status = "cancelled"

C11_InvalidScheduleRejected ==
    ( /\ last.op = "schedule"
      /\ \/ DateBefore(last.data.date, Today)
         \/ ~validate_time(last.data.time) )
    => ( /\ ~last.ret
         /\ last.check = "none"
         /\ Persisted = Before )

(***************************************************************************)
(* C12: every record added to the persisted collection by a successful     *)
(* schedule has status scheduled when it is persisted, whatever the caller *)
(* passed in.                                                              *)
(***************************************************************************)
C12_PersistedAsScheduled ==
    (last.op = "schedule" /\ last.ret) =>
        /\ Len(Persisted) = Len(Before) + 1
        /\ Persisted[Len(Persisted)].id = last.id
        /\ Persisted[Len(Persisted)].status = "scheduled"

(***************************************************************************)
(* C13: update and cancel called with an id that matches no persisted      *)
(* appointment return failure and leave the persisted collection           *)
(* unchanged.                                                              *)
(***************************************************************************)
C13_UnknownIdRefused ==
    (last.op \in {"update", "cancel"} /\ last.id \notin Ids(Before)) =>
        /\ ~last.ret
        /\ Persisted = Before

\* an update and a cancel of an id that is not stored, while other
\* appointments are
C13_Witness ==
    /\ last.op \in {"update", "cancel"}
    /\ last.id \notin Ids(Before)
    /\ Len(Before) > 0
    /\ ~last.ret

(***************************************************************************)
(* C14: update on an existing appointment with a patch that holds none of  *)
(* date, time, status, notes returns success and leaves the persisted      *)
(* collection unchanged: no field added or changed, updated_at not         *)
(* refreshed, nothing saved.                                               *)
(***************************************************************************)
C14_UnrecognizedPatchIsNoOp ==
    ( /\ last.op = "update"
      /\ last.id \in Ids(Before)
      /\ DOMAIN last.data \cap {"date", "time", "status", "notes"} = {} )
    => ( /\ last.ret
         /\ Persisted = Before
         /\ disk = last.before )

(***************************************************************************)
(* C15: a record's id is an immutable unique key: the ids of the persisted *)
(* collection are pairwise distinct in every reachable state, and no       *)
(* successful update changes the id of an existing record, whatever the    *)
(* patch holds.                                                            *)
(***************************************************************************)
C15_IdImmutableUnique ==
    /\ \A i, j \in 1..Len(Persisted) :
          Persisted[i].id = Persisted[j].id => i = j
    /\ (last.op = "update" /\ last.ret) =>
          /\ Len(Persisted) = Len(Before)
          /\ \A i \in 1..Len(Before) : Persisted[i].id = Before[i].id

(***************************************************************************)
(* C16: load on a file that does not exist returns an empty collection and *)
(* leaves the file existing with an empty collection in it; a following    *)
(* load returns the same empty collection (the storage accepting writes).  *)
(***************************************************************************)
C16_LoadCreatesMissingFile ==
    ( /\ last.op = "load"
      /\ last.before.file.kind = "missing"
      /\ last.io.save = "ok" )
    => ( /\ last.out = <<>>
         /\ disk.file = ListFile(<<>>)
         /\ load_data(disk, IoWorking).data = <<>>
         /\ load_data(disk, IoWorking).disk = disk )

C16_Witness ==
    /\ last.op = "load"
    /\ last.before.file.kind = "missing"
    /\ last.out = <<>>
    /\ disk.file.kind = "list"

C18_BackupHoldsPrevious ==
    ( /\ last.op = "save"
      /\ last.ret
      /\ last.before.file.kind # "missing"
      /\ last.io.backup = "ok" )
    => disk.backup = last.before.file

\* the save replaced an older backup by the contents of the file before it
C18_Witness ==
    /\ last.op = "save"
    /\ last.ret
    /\ last.io.backup = "ok"
    /\ last.before.backup.kind = "list"
    /\ last.before.file.kind = "list"
    /\ last.before.backup # last.before.file
    /\ disk.backup = last.before.file
    /\ disk.backup # disk.file

(***************************************************************************)
(* C19: under every storage fault load returns a collection, empty when    *)
(* the content cannot be read, and save returns success or failure; no     *)
(* fault leaves either operation as an exception, and a failed backup copy *)
(* alone does not make save fail.                                          *)
(***************************************************************************)
C19_FaultsNeverEscape ==
    last.op \in {"load", "save"} =>
        /\ ~last.raised
        /\ last.ret \in BOOLEAN
        /\ ( /\ last.op = "load"
             /\ last.before.file.kind # "list" \/ last.io.load # "ok" )
           => last.out = <<>>
        /\ ( /\ last.op = "save"
             /\ last.io.save = "ok"
             /\ Serializable(last.data) )
           => last.ret

\* a save succeeded although the copy to .backup failed
C19_Witness ==
    /\ last.op = "save"
    /\ last.ret
    /\ last.io.backup # "ok"
    /\ last.before.file.kind = "list"
    /\ disk.backup # last.before.file

(***************************************************************************)
(* C20: get_next_id(records, prefix) returns prefix followed by max+1      *)
(* zero-padded to at least 3 digits, where max is the largest integer      *)
(* among the ids that begin with prefix, once the prefix is stripped (0    *)
(* when none parses); ids without the prefix and ids whose remainder is    *)
(* not an integer do not influence the result; for an empty collection it  *)
(* returns prefix followed by 001.                                         *)
(***************************************************************************)
C20_NextSequentialId ==
    last.op = "get_next_id" =>
        LET prefix == last.data.prefix
            nums == {IntOf(SubSeq(Before[i].id, Len(prefix) + 1,
                                  Len(Before[i].id))) :
                        i \in {j \in 1..Len(Before) :
                                 /\ StartsWith(Before[j].id, prefix)
                                 /\ IsInt(SubSeq(Before[j].id, Len(prefix) + 1,
                                                 Len(Before[j].id)))}}
            max == IF nums = {} THEN 0
                   ELSE CHOOSE n \in nums : \A m \in nums : m <= n
        IN  /\ last.out = prefix \o ZeroPad(DigitsOf(max + 1), 3)
            /\ Len(Before) = 0 => last.out = prefix \o <<"0", "0", "1">>

(***************************************************************************)
(* C21: two instances that run schedule on the same file with their load,  *)
(* conflict-check and save steps interleaved can both return success and   *)
(* leave either two live appointments of one doctor and date less than 30  *)
(* minutes apart, or the file without the appointment the first instance   *)
(* wrote, because a save replaces the whole file.  As an invariant: each   *)
(* save leaves exactly the saver's in-memory collection in the file, and   *)
(* whenever both calls have returned success for slots less than 30        *)
(* minutes apart, one of the two outcomes has happened.                    *)
(***************************************************************************)
C21_RaceLosesOrDoubleBooks ==
    /\ (last.op = "race_save" /\ inst[last.instance].ret) =>
          Persisted = inst[last.instance].data
    /\ ( /\ \A i \in Instances : inst[i].pc = "done" /\ inst[i].ret
         /\ TimeDiff(inst["A"].ad.time, inst["B"].ad.time) < 30 )
       => \/ DoubleBooked(Persisted)
          \/ \E i \in Instances : inst[i].id \notin Ids(Persisted)

\* both calls returned success and both appointments are stored, 29 minutes
\* apart
C21_Witness ==
    /\ \A i \in Instances : inst[i].pc = "done" /\ inst[i].ret
    /\ \A i \in Instances : inst[i].id \in Ids(Persisted)
    /\ TimeDiff(inst["A"].ad.time, inst["B"].ad.time) = 29
    /\ DoubleBooked(Persisted)

(***************************************************************************)
(* C22: delete_patient and delete_staff leave the persisted appointment    *)
(* collection unchanged: every appointment that references the deleted id  *)
(* is still stored with the same status, and a live appointment of a       *)
(* deleted doctor still takes part in conflict detection.                  *)
(***************************************************************************)
C22_DeleteDoesNotCascade ==
    /\ last.op \in {"delete_patient", "delete_staff"} =>
          /\ disk = last.before
          /\ Persisted = Before
    /\ ( /\ last.op = "schedule"
         /\ last.data.doctor_id \notin Ids(Stored(registry.staff)) )
       => last.ret = ~Blocked(Before, last.data.doctor_id, last.data.date,
                              last.data.time, NoId)

\* a schedule was refused because of the appointment of a deleted patient
\* with a deleted doctor
C22_Witness ==
    /\ last.op = "schedule"
    /\ ~last.ret
    /\ last.check = "conflict"
    /\ last.data.doctor_id \notin Ids(Stored(registry.staff))
    /\ \E i \in 1..Len(Persisted) :
          /\ Persisted[i].doctor_id = last.data.doctor_id
          /\ Persisted[i].patient_id \notin Ids(Stored(registry.patients))
          /\ Persisted[i].status = "scheduled"

(***************************************************************************)
(* C23: if the save fails during schedule after the conflict check passed, *)
(* schedule returns failure and the new appointment is not persisted: a    *)
(* following load does not contain it and a following schedule for the     *)
(* same doctor, date and time is not blocked by it.                        *)
(***************************************************************************)
C23_FailedSaveNotPersisted ==
    (last.op = "schedule" /\ last.check = "clear" /\ ~last.ret) =>
        /\ last.id \notin Ids(Persisted)
        /\ check_appointment_conflict(disk, last.data.doctor_id, last.data.date,
                                      last.data.time, NoId, IoWorking).ok
             = ~Blocked(Before, last.data.doctor_id, last.data.date,
                        last.data.time, NoId)

\* the save of a second appointment failed and the first is still stored
C23_Witness ==
    /\ last.op = "schedule"
    /\ last.check = "clear"
    /\ ~last.ret
    /\ last.id # NoId
    /\ Len(Before) > 0
    /\ Persisted = Before

(***************************************************************************)
(* C24: update_record on an id present in the in-memory collection sets    *)
(* exactly the patch's fields on the matching record, sets its updated_at  *)
(* to the current time (also when the patch supplies an updated_at),       *)
(* leaves every other field and every other record unchanged and does not  *)
(* touch storage; on an absent id it returns failure and leaves the        *)
(* collection unchanged.                                                   *)
(***************************************************************************)
C24_UpdateRecordFrame ==
    last.op = "update_record" =>
        LET fields == last.data.fields
        IN  /\ disk = last.before
            /\ Len(last.out) = Len(Before)
            /\ last.ret = (last.data.id \in Ids(Before))
            /\ ~last.ret => last.out = Before
            /\ last.ret =>
                 \E i \in WithId(Before, last.data.id) :
                    /\ \A j \in 1..Len(Before) :
                          j # i => last.out[j] = Before[j]
                    /\ DOMAIN last.out[i]
                         = DOMAIN Before[i] \cup DOMAIN fields \cup {"updated_at"}
                    /\ \A k \in DOMAIN last.out[i] :
                          last.out[i][k] =
                              IF k = "updated_at" THEN now
                              ELSE IF k \in DOMAIN fields THEN fields[k]
                              ELSE Before[i][k]

\* the patch supplied its own updated_at and the clock's reading was stored
C24_Witness ==
    /\ last.op = "update_record"
    /\ last.ret
    /\ "updated_at" \in DOMAIN last.data.fields
    /\ last.data.fields.updated_at # now
    /\ Len(Before) > 1
    /\ \E i \in WithId(last.out, last.data.id) : last.out[i].updated_at = now

(***************************************************************************)
(* C28: when several records have the same id, find_by_id returns the      *)
(* first of them in collection order, update_record changes only that      *)
(* first record, and delete_record removes only that first record and      *)
(* keeps the remaining records in their order; delete_record on an absent  *)
(* id returns failure and leaves the collection unchanged.                 *)
(***************************************************************************)
C28_FirstMatchOnly ==
    last.op \in {"find_by_id", "update_record", "delete_record"} =>
        LET matches == WithId(Before, last.data.id)
            first == CHOOSE i \in matches : \A j \in matches : i <= j
        IN  IF matches = {}
            THEN /\ ~last.ret
                 /\ last.op = "find_by_id" => last.out = <<>>
                 /\ last.op # "find_by_id" => last.out = Before
            ELSE /\ last.ret
                 /\ last.op = "find_by_id" => last.out = <<first>>
                 /\ last.op = "update_record" =>
                       /\ Len(last.out) = Len(Before)
                       /\ last.out[first] # Before[first]
                       /\ \A j \in 1..Len(Before) :
                             j # first => last.out[j] = Before[j]
                 /\ last.op = "delete_record" =>
                       /\ Len(last.out) = Len(Before) - 1
                       /\ \A j \in 1..Len(last.out) :
                             last.out[j] = IF j < first THEN Before[j]
                                           ELSE Before[j + 1]

\* the first of two records with the same id was deleted from between
\* other records, and the second is still there
C28_Witness ==
    /\ last.op = "delete_record"
    /\ last.ret
    /\ Len(Before) = 3
    /\ WithId(Before, last.data.id) = {2, 3}
    /\ Before[2] # Before[3]
    /\ last.out = <<Before[1], Before[3]>>

(***************************************************************************)
(* C25: with working storage, an update whose patch holds date and/or time *)
(* succeeds exactly when no other live appointment of the same doctor on   *)
(* the effective date is less than 30 minutes from the effective time; the *)
(* appointment's own slot never counts, so a move by less than 30 minutes  *)
(* is allowed.                                                             *)
(***************************************************************************)
C25_RescheduleDecidedByOthers ==
    ( /\ last.op = "update"
      /\ last.id \in Ids(Before)
      /\ DOMAIN last.data \cap {"date", "time"} # {} )
    => LET rec == Before[FirstIndex(Before, last.id)]
       IN  last.ret = ~Blocked(Before, rec.doctor_id,
                               Get(last.data, "date", rec.date),
                               Get(last.data, "time", rec.time), last.id)

\* a live appointment was moved by 1 to 29 minutes, into its own buffer,
\* while another live appointment of the doctor was stored for that day
C25_Witness ==
    /\ last.op = "update"
    /\ last.ret
    /\ "time" \in DOMAIN last.data
    /\ \E i \in WithId(Before, last.id) :
          /\ Before[i].status # "cancelled"
          /\ TimeDiff(Before[i].time, last.data.time) \in 1..29
          /\ Persisted[i].time = last.data.time
          /\ \E j \in 1..Len(Before) :
                /\ Before[j].id # last.id
                /\ Before[j].doctor_id = Before[i].doctor_id
                /\ Before[j].date = Persisted[i].date
                /\ Before[j].status # "cancelled"

(***************************************************************************)
(* C26: a successful cancel of an appointment that was not cancelled is a  *)
(* pure status transition: only that record's status (now cancelled) and   *)
(* updated_at differ from before; its other fields, the number and order   *)
(* of records, and every other record are unchanged.                       *)
(***************************************************************************)
C26_CancelOnlySetsStatus ==
    ( /\ last.op = "cancel"
      /\ last.ret
      /\ \E i \in WithId(Before, last.id) : Before[i].status # "cancelled" )
    => LET i == FirstIndex(Before, last.id)
       IN  /\ Len(Persisted) = Len(Before)
           /\ \A j \in 1..Len(Before) : j # i => Persisted[j] = Before[j]
           /\ Persisted[i] = [Before[i] EXCEPT !.status = "cancelled",
                                               !.updated_at = now]

\* an appointment with notes was cancelled and kept its notes
C26_Witness ==
    /\ last.op = "cancel"
    /\ last.ret
    /\ \E i \in WithId(Before, last.id) :
          /\ Before[i].status = "scheduled"
          /\ Before[i].notes # ""
          /\ Persisted[i].notes = Before[i].notes
          /\ Persisted[i].status = "cancelled"
          /\ Persisted[i].updated_at > Before[i].updated_at

(***************************************************************************)
(* C27: the conflict check treats two appointments as being on the same    *)
(* date only when their date strings are identical: two strings that pass  *)
(* date validation and denote the same day but are written differently are *)
(* never reported as conflicting, whatever their times.                    *)
(***************************************************************************)
C27_DateComparedAsString ==
    last.op = "schedule" =>
        /\ validate_date(last.data.date)
        /\ (\A i \in 1..Len(Before) : Before[i].date # last.data.date)
              => last.ret
        /\ ~last.ret =>
              \E i \in 1..Len(Before) :
                  /\ Before[i].date = last.data.date
                  /\ Before[i].status # "cancelled"
                  /\ TimeDiff(Before[i].time, last.data.time) < 30

\* a schedule succeeded on the day and time of a live appointment of the
\* same doctor whose date is written differently
C27_Witness ==
    /\ last.op = "schedule"
    /\ last.ret
    /\ \E i \in 1..Len(Before) :
          /\ Before[i].doctor_id = last.data.doctor_id
          /\ Before[i].status # "cancelled"
          /\ Before[i].time = last.data.time
          /\ Before[i].date # last.data.date
          /\ SubSeq(Before[i].date, 1, 3) = SubSeq(last.data.date, 1, 3)

(***************************************************************************)
(* C29: a save that returns failure leaves the stored collection as it     *)
(* was: a following load returns what a load before the save would have    *)
(* returned, so a failed schedule, update or cancel never destroys or      *)
(* alters previously persisted records.                                    *)
(***************************************************************************)
C29_FailedCallKeepsRecords ==
    (last.op \in {"schedule", "update", "cancel"} /\ ~last.ret) =>
        Persisted = Before

(***************************************************************************)
(* C30: the conflict check fails closed: while the stored collection holds *)
(* a live appointment of doctor D on date Dt whose time cannot be parsed,  *)
(* the check without an exclusion answers false for every candidate time   *)
(* on (D, Dt), so every schedule for D on Dt fails.                        *)
(***************************************************************************)
C30_ConflictCheckFailsClosed ==
    \A i \in 1..Len(Before) :
        (Before[i].status # "cancelled" /\ ~validate_time(Before[i].time)) =>
            /\ \A t \in Times \cup ApiTimes :
                  ~check_appointment_conflict(last.before, Before[i].doctor_id,
                                              Before[i].date, t, NoId,
                                              IoWorking).ok
            /\ ( /\ last.op = "schedule"
                 /\ last.data.doctor_id = Before[i].doctor_id
                 /\ last.data.date = Before[i].date )
               => ~last.ret

\* a schedule with a well-formed time, far from every parsable stored time,
\* was refused because a stored live appointment has the time 25:00
C30_Witness ==
    /\ last.op = "schedule"
    /\ ~last.ret
    /\ last.check = "conflict"
    /\ validate_time(last.data.time)
    /\ ~Blocked(SelectSeq(Before, LAMBDA r : validate_time(r.time)),
                last.data.doctor_id, last.data.date, last.data.time, NoId)
    /\ \E i \in 1..Len(Before) :
          /\ Before[i].doctor_id = last.data.doctor_id
          /\ Before[i].date = last.data.date
          /\ Before[i].status # "cancelled"
          /\ Before[i].time = BadTime

====
